---- MODULE Spec2Model ----
(***************************************************************************)
(* A model of the stringer generator: the constants of one declared type   *)
(* are collected (genDecl), sorted, deduplicated and split into runs       *)
(* (splitIntoRuns), a layout and a decode routine are emitted (generate    *)
(* and the build methods), and the emitted routine is run on input values. *)
(*                                                                         *)
(* Strings are sequences of code points.  The 64-bit value pattern of the  *)
(* program is a Width-bit pattern here; all arithmetic on it is modulo     *)
(* 2^Width.  A declared type has its own width (bits <= Width) and         *)
(* signedness; arithmetic of the emitted routine is modulo 2^bits.         *)
(***************************************************************************)
EXTENDS Integers, Sequences, FiniteSets, TLC

\* ------------------------------------------------------------------ bounds

\* Number of bits of the value pattern (uint64 in the program).
Width == 17

\* Number of leading declarations whose value is chosen freely; the
\* declarations after them continue with the sparse values 1, 4, 16, ...
MaxFree == 2

\* Number of entries a -flags or -enums list may hold.
MaxEntries == 2

\* --------------------------------------------------------- program constants

Flag == 0
Enum == 1

\* The run threshold of generate's switch: "case len(runs) <= 8".
MaxRuns == 8

\* ------------------------------------------------------------- bit patterns

Mod64 == 2 ^ Width

RECURSIVE BitAnd(_, _)
\* a & b
BitAnd(a, b) ==
    IF a = 0 \/ b = 0 THEN 0
    ELSE (IF a % 2 = 1 /\ b % 2 = 1 THEN 1 ELSE 0) + 2 * BitAnd(a \div 2, b \div 2)

\* a &^ b
AndNot(a, b) == a - BitAnd(a, b)

RECURSIVE OnesCount(_)
\* number of set bits of a pattern
OnesCount(a) == IF a = 0 THEN 0 ELSE (a % 2) + OnesCount(a \div 2)

\* int64(u): the signed reading of a Width-bit pattern
ToInt64(u) == IF u >= Mod64 \div 2 THEN u - Mod64 ELSE u

\* isPow2 as it would be with zero excluded
isPow2Strict(x) == x # 0 /\ BitAnd(x, (x + Mod64 - 1) % Mod64) = 0

\* isPow2: (x & (x - 1)) == 0 on uint64
isPow2(x) == BitAnd(x, (x + Mod64 - 1) % Mod64) = 0

\* ------------------------------------------------------------------ strings

TypeName == <<84>>          \* "T"
Blank == <<95>>             \* "_"
Space == 32

RECURSIVE TrimLeft(_)
TrimLeft(s) == IF Len(s) > 0 /\ Head(s) = Space THEN TrimLeft(Tail(s)) ELSE s

RECURSIVE TrimRight(_)
TrimRight(s) ==
    IF Len(s) > 0 /\ s[Len(s)] = Space THEN TrimRight(SubSeq(s, 1, Len(s) - 1)) ELSE s

\* strings.TrimSpace
TrimSpace(s) == TrimRight(TrimLeft(s))

\* strings.TrimPrefix
TrimPrefix(s, p) ==
    IF Len(p) <= Len(s) /\ SubSeq(s, 1, Len(p)) = p
    THEN SubSeq(s, Len(p) + 1, Len(s))
    ELSE s

RECURSIVE Digits(_)
\* the decimal digits of a natural number
Digits(n) == IF n < 10 THEN <<48 + n>> ELSE Digits(n \div 10) \o <<48 + (n % 10)>>

\* strconv.FormatInt(n, 10)
FormatInt(n) == IF n < 0 THEN <<45>> \o Digits(-n) ELSE Digits(n)

\* ------------------------------------------------- the package being read

\* The declared integer types: uint8, int8 and the full-width pair
\* (uint64, int64 in the program).
TypeDefs == [signed : BOOLEAN, bits : {8, Width}]

\* The largest pattern of a type, plus one.
Card(t) == 2 ^ t.bits

\* The constant a pattern of the type denotes.
TypedVal(t, p) == IF t.signed /\ p >= Card(t) \div 2 THEN p - Card(t) ELSE p

\* The pattern of the type that holds the integer n (conversion T(n), wrapping).
Pat(t, n) == n % Card(t)

\* The identifier of the k-th declared constant, and its line comment.
OrigName(k) == <<84>> \o [j \in 1..(1 + (k % 2)) |-> 96 + k]
HasComment(k) == k % 3 = 0
CommentText(k) == <<Space, 64 + k, Space>>

\* The values a freely chosen declaration may have.
FreeVals(t) == {0, 1, 2, Card(t) \div 2, Card(t) - 1}

\* The k-th value of the sparse continuation.
Sparse(k) == 4 ^ (k - 1)

\* The option settings a type entry of the command line may carry.
TypeOptions ==
    { [trimPrefix |-> <<>>, lineComment |-> FALSE],
      [trimPrefix |-> <<84>>, lineComment |-> TRUE] }

\* -------------------------------------------------------------------- state

VARIABLES
    tdef,       \* the declared type: [signed, bits]
    decls,      \* the const declarations of the source, in declaration order
    file,       \* File: kind, typeName, values, trimPrefix, lineComment
    runs,       \* generate's local runs
    tables,     \* the declarations in g.buf: name constants, index arrays, map
    methods,    \* the methods in g.buf, in the order printed
    arg,        \* the value the emitted method was last called with
    terms,      \* what ActiveFlags returned for it (flag types)
    str,        \* what String returned for it
    pc,         \* "source", "generated", "decoded", "fatal"; the position of run
    flagTypesStrFlag,   \* the -flags argument of the command line
    enumTypesStrFlag,   \* the -enums argument of the command line
    types,      \* run's types: the typeOptions of the entries parsed
    pkgs,       \* g.pkgs: empty until parsePackage has run
    buf,        \* g.buf in run: what generate printed, one record per type
    outputFile, \* the output file: empty until it is written
    exit        \* the exit code of the process and its last message

vars == <<tdef, decls, file, runs, tables, methods, arg, terms, str, pc,
          flagTypesStrFlag, enumTypesStrFlag, types, pkgs, buf, outputFile, exit>>

\* The state of run.
runVars == <<flagTypesStrFlag, enumTypesStrFlag, types, pkgs, buf, outputFile, exit>>

\* ------------------------------------------------------------------ genDecl

\* The Value of one declared name, as genDecl builds it.
MakeValue(f, t, d) ==
    LET c == TypedVal(t, d.val) IN
    [ originalName |-> d.originalName,
      name |-> IF f.lineComment /\ d.hasComment
               THEN TrimSpace(d.comment)
               ELSE TrimPrefix(d.originalName, f.trimPrefix),
      value |-> c % Mod64,
      signed |-> t.signed,
      str |-> c ]

\* Whether genDecl drops the declared name.
Skipped(f, t, d) ==
    \/ d.typ # f.typeName
    \/ d.originalName = Blank
    \/ (~isPow2(TypedVal(t, d.val) % Mod64) /\ f.kind = Flag)

\* resetFile as it would be without "file.values = nil"
resetFileKeep(f, typeName, kind, trimPrefix, lineComment) ==
    [f EXCEPT !.kind = kind, !.typeName = typeName,
              !.trimPrefix = trimPrefix, !.lineComment = lineComment]

\* The state generate sets on the file for one run of the walker.
resetFile(f, typeName, kind, trimPrefix, lineComment) ==
    [f EXCEPT !.values = <<>>, !.kind = kind, !.typeName = typeName,
              !.trimPrefix = trimPrefix, !.lineComment = lineComment]

RECURSIVE genDecl(_, _, _)
\* The walk of ast.Inspect over the declarations: f.values afterwards, each
\* kept constant appended to what f.values held before.
genDecl(f, t, ds) ==
    IF ds = <<>> THEN f.values
    ELSE LET rest == genDecl(f, t, SubSeq(ds, 1, Len(ds) - 1))
             d == ds[Len(ds)]
         IN IF Skipped(f, t, d) THEN rest ELSE Append(rest, MakeValue(f, t, d))

\* ------------------------------------------------------------ splitIntoRuns

\* Less as it would be without the signed branch
LessUnsigned(a, b) == a.value < b.value

\* byValue.Less
Less(a, b) ==
    IF a.signed THEN ToInt64(a.value) < ToInt64(b.value) ELSE a.value < b.value

RECURSIVE InsertBefore(_, _)
\* InsertStable as it would be for a sort that is not stable
InsertBefore(s, x) ==
    IF s = <<>> THEN <<x>>
    ELSE IF ~Less(s[Len(s)], x) THEN Append(InsertBefore(SubSeq(s, 1, Len(s) - 1), x), s[Len(s)])
    ELSE Append(s, x)

RECURSIVE InsertStable(_, _)
\* x put into the sorted s behind every element that is not greater
InsertStable(s, x) ==
    IF s = <<>> THEN <<x>>
    ELSE IF Less(x, s[Len(s)]) THEN Append(InsertStable(SubSeq(s, 1, Len(s) - 1), x), s[Len(s)])
    ELSE Append(s, x)

RECURSIVE sortStable(_)
\* sort.Stable(byValue(values))
sortStable(s) ==
    IF Len(s) <= 1 THEN s
    ELSE InsertStable(sortStable(SubSeq(s, 1, Len(s) - 1)), s[Len(s)])

RECURSIVE dedup(_, _, _)
\* The duplicate-removal loop; positions are 1-based, j counts the kept ones.
dedup(values, i, j) ==
    IF i > Len(values) THEN SubSeq(values, 1, j)
    ELSE IF values[i].value # values[i - 1].value
         THEN dedup([values EXCEPT ![j + 1] = values[i]], i + 1, j + 1)
         ELSE dedup(values, i + 1, j)

\* Contiguous as it would be for an enum successor that does not wrap
ContiguousNoWrap(kind, a, b) ==
    IF kind = Flag
    THEN a.value = 0 \/ b.value = (a.value * 2) % Mod64
    ELSE b.value = a.value + 1

\* values[i-1], values[i] continue a run
Contiguous(kind, a, b) ==
    IF kind = Flag
    THEN a.value = 0 \/ b.value = (a.value * 2) % Mod64
    ELSE b.value = (a.value + 1) % Mod64

RECURSIVE runLength(_, _, _)
\* The inner loop: the length of the run that starts values.
runLength(kind, values, i) ==
    IF i < Len(values) /\ Contiguous(kind, values[i], values[i + 1])
    THEN runLength(kind, values, i + 1)
    ELSE i

RECURSIVE cutRuns(_, _)
\* The outer loop: one contiguous sequence per iteration.
cutRuns(kind, values) ==
    IF values = <<>> THEN <<>>
    ELSE LET i == runLength(kind, values, 1)
         IN <<SubSeq(values, 1, i)>> \o cutRuns(kind, SubSeq(values, i + 1, Len(values)))

\* splitIntoRuns; the input is known to be non-empty.
splitIntoRuns(values, kind) ==
    cutRuns(kind, dedup(sortStable(values), 2, 1))

\* ------------------------------------------------------------------- layout

\* fmt.Sprintf("_%d", i)
Suffix(i) == <<95>> \o Digits(i)

RECURSIVE BlobSpaced(_)
\* Blob as it would be with a space written after each name
BlobSpaced(run) ==
    IF run = <<>> THEN <<>>
    ELSE BlobSpaced(SubSeq(run, 1, Len(run) - 1)) \o run[Len(run)].name \o <<Space>>

RECURSIVE Blob(_)
\* The names of a run written one after the other.
Blob(run) == IF run = <<>> THEN <<>> ELSE Blob(SubSeq(run, 1, Len(run) - 1)) \o run[Len(run)].name

\* createIndexAndNameDecl as it would be with the offset taken before the
\* name is written
createIndexAndNameDeclEarly(run) ==
    [ index |-> <<0>> \o [i \in 1..Len(run) |-> Len(Blob(SubSeq(run, 1, i - 1)))],
      name |-> Blob(run) ]

\* createIndexAndNameDecl: the index array {0, b.Len() after each name} and
\* the name constant of one run.
createIndexAndNameDecl(run) ==
    [ index |-> <<0>> \o [i \in 1..Len(run) |-> Len(Blob(SubSeq(run, 1, i)))],
      name |-> Blob(run) ]

\* The run whose suffix is s.
RunOf(rs, s) == rs[CHOOSE i \in 1..Len(rs) : Suffix(i - 1) = s]

\* declareIndexAndNameVars: one name constant per run, one index array per
\* run whose length is not 1.
declareIndexAndNameVars(rs) ==
    [ name |-> [s \in {Suffix(i - 1) : i \in 1..Len(rs)} |->
                    createIndexAndNameDecl(RunOf(rs, s)).name],
      index |-> [s \in {Suffix(i - 1) : i \in {k \in 1..Len(rs) : Len(rs[k]) # 1}} |->
                    createIndexAndNameDecl(RunOf(rs, s)).index],
      map |-> <<>> ]

\* declareIndexAndNameVar: the single-run version, without suffix.
declareIndexAndNameVar(run) ==
    [ name |-> [s \in {<<>>} |-> createIndexAndNameDecl(run).name],
      index |-> [s \in {<<>>} |-> createIndexAndNameDecl(run).index],
      map |-> <<>> ]

RECURSIVE Flatten(_)
Flatten(rs) == IF rs = <<>> THEN <<>> ELSE rs[1] \o Flatten(Tail(rs))

RECURSIVE mapEntries(_, _)
\* buildMap's loop: "value: _T_name[n:n+len(value.name)]" for every value.
mapEntries(vs, n) ==
    IF vs = <<>> THEN <<>>
    ELSE <<[key |-> vs[1].str, lo |-> n, hi |-> n + Len(vs[1].name)]>>
         \o mapEntries(Tail(vs), n + Len(vs[1].name))

\* declareNameVars and the map of buildMap.
declareNameVars(rs) ==
    [ name |-> [s \in {<<>>} |-> Blob(Flatten(rs))],
      index |-> [s \in {} |-> <<>>],
      map |-> mapEntries(Flatten(rs), 0) ]

\* ------------------------------------------------------ the emitted methods

\* A reference to the name of member j of run i in an emitted body:
\* _T_name_i, or _T_name_i[_T_index_i[j]:_T_index_i[j+1]].
NameRef(i, j, sliced) == [suffix |-> Suffix(i), sliced |-> sliced, j |-> j]

\* buildOneRun
buildOneRun(rs) ==
    LET values == rs[1] IN
    IF values[1].value = 0
    THEN [ method |-> "String", tmpl |-> "stringOneRun",
           lessThanZero |-> values[1].signed ]
    ELSE [ method |-> "String", tmpl |-> "stringOneRunWithOffset",
           lo |-> values[1].str, lessThanZero |-> values[1].signed ]

\* The case buildMultipleRuns prints for run i (0-based).
switchCase(values, i) ==
    IF Len(values) = 1
    THEN [ single |-> TRUE, v |-> values[1].str, suffix |-> Suffix(i) ]
    ELSE [ single |-> FALSE,
           lower |-> ~(values[1].value = 0 /\ ~values[1].signed),
           lo |-> values[1].str, hi |-> values[Len(values)].str,
           sub |-> values[1].value # 0, suffix |-> Suffix(i) ]

\* buildMultipleRuns
buildMultipleRuns(rs) ==
    [ method |-> "String", tmpl |-> "switch",
      cases |-> [i \in 1..Len(rs) |-> switchCase(rs[i], i - 1)] ]

RECURSIVE zeroInRun(_, _, _)
\* The inner loop of buildFlagActiveFlagsMethodStart over one run.
zeroInRun(values, i, j) ==
    IF j > Len(values) THEN <<>>
    ELSE IF values[j].value = 0 THEN <<NameRef(i, j - 1, TRUE)>>
    ELSE zeroInRun(values, i, j + 1)

RECURSIVE zeroBranch(_, _)
\* buildFlagActiveFlagsMethodStart: the "if i == 0" branch, if one is printed.
zeroBranch(rs, i) ==
    IF i > Len(rs) THEN <<>>
    ELSE IF Len(rs[i]) = 1 /\ rs[i][1].value = 0 THEN <<NameRef(i - 1, 0, FALSE)>>
    ELSE IF zeroInRun(rs[i], i - 1, 1) # <<>> THEN zeroInRun(rs[i], i - 1, 1)
    ELSE zeroBranch(rs, i + 1)

RECURSIVE runTests(_, _, _)
\* The bit tests buildFlagsMultipleRuns prints for run i (0-based).
runTests(values, i, j) ==
    IF j > Len(values) THEN <<>>
    ELSE IF values[j].value = 0 THEN runTests(values, i, j + 1)
    ELSE <<[v |-> values[j].str, ref |-> NameRef(i, j - 1, Len(values) # 1)]>>
         \o runTests(values, i, j + 1)

RECURSIVE allTests(_, _)
allTests(rs, i) == IF i > Len(rs) THEN <<>> ELSE runTests(rs[i], i - 1, 1) \o allTests(rs, i + 1)

\* buildFlagsMultipleRuns
buildFlagsMultipleRuns(rs) ==
    [ method |-> "ActiveFlags", tmpl |-> "flags",
      zero |-> zeroBranch(rs, 1), tests |-> allTests(rs, 1) ]

\* buildFlagStringMethod
buildFlagStringMethod == [ method |-> "String", tmpl |-> "join", sep |-> <<43>> ]

\* The method buildMap prints.
buildMap(kind, rs) ==
    IF kind = Flag
    THEN [ method |-> "ActiveFlags", tmpl |-> "stringFlagMap", zero |-> zeroBranch(rs, 1) ]
    ELSE [ method |-> "String", tmpl |-> "stringMap" ]

\* Whether generate's switch takes its first case.
IsOneRun(rs, kind) == Len(rs) = 1 /\ kind = Enum

\* IsFewRuns as it would be with "<" for "<="
IsFewRunsBelow(rs, kind) == ~(Len(rs) = 1 /\ kind = Enum) /\ Len(rs) < MaxRuns

\* Whether generate's switch takes its second case.
IsFewRuns(rs, kind) == ~IsOneRun(rs, kind) /\ Len(rs) <= MaxRuns

\* The declarations generate's switch prints.
Layout(rs, kind) ==
    IF IsOneRun(rs, kind) THEN declareIndexAndNameVar(rs[1])
    ELSE IF IsFewRuns(rs, kind) THEN declareIndexAndNameVars(rs)
    ELSE declareNameVars(rs)

\* The methods generate's switch prints, in order.
Methods(rs, kind) ==
    IF IsOneRun(rs, kind) THEN <<buildOneRun(rs)>>
    ELSE IF IsFewRuns(rs, kind)
         THEN IF kind = Flag
              THEN <<buildFlagsMultipleRuns(rs), buildFlagStringMethod>>
              ELSE <<buildMultipleRuns(rs)>>
    ELSE <<buildMap(kind, rs), buildFlagStringMethod>>

\* ------------------------------------------- running the emitted methods

\* What stands for a result when the body refers to a table that the
\* layout does not declare (the emitted file does not compile).
Undeclared == <<-1>>

\* int64(i) for i of the declared type
ConvInt64(t, i) == ToInt64(TypedVal(t, i) % Mod64)

\* "T(" + strconv.FormatInt(int64(i), 10) + ")"
Fallback(t, i) == TypeName \o <<40>> \o FormatInt(ConvInt64(t, i)) \o <<41>>

\* blob[a:b]
Slice(blob, a, b) == SubSeq(blob, a + 1, b)

\* Whether the layout declares what the reference names.
RefDeclared(tb, r) ==
    /\ r.suffix \in DOMAIN tb.name
    /\ r.sliced => r.suffix \in DOMAIN tb.index

\* The string a declared reference denotes.
RefName(tb, r) ==
    IF r.sliced
    THEN Slice(tb.name[r.suffix], tb.index[r.suffix][r.j + 1], tb.index[r.suffix][r.j + 2])
    ELSE tb.name[r.suffix]

\* _T_name_s[_T_index_s[i]:_T_index_s[i+1]] for an index i of the type
Indexed(t, tb, s, i) ==
    Slice(tb.name[s], tb.index[s][TypedVal(t, i) + 1], tb.index[s][TypedVal(t, i) + 2])

\* stringOneRun
execOneRun(t, tb, m, i) ==
    IF \/ (m.lessThanZero /\ TypedVal(t, i) < 0)
       \/ TypedVal(t, i) >= TypedVal(t, Pat(t, Len(tb.index[<<>>]) - 1))
    THEN Fallback(t, i)
    ELSE Indexed(t, tb, <<>>, i)

\* stringOneRunWithOffset
execOneRunWithOffset(t, tb, m, i0) ==
    LET i == Pat(t, i0 - m.lo) IN
    IF \/ (m.lessThanZero /\ TypedVal(t, i) < 0)
       \/ TypedVal(t, i) >= TypedVal(t, Pat(t, Len(tb.index[<<>>]) - 1))
    THEN Fallback(t, Pat(t, i + m.lo))
    ELSE Indexed(t, tb, <<>>, i)

\* Whether the case of the switch is taken for i.
caseTaken(t, c, i) ==
    IF c.single THEN i = Pat(t, c.v)
    ELSE (c.lower => c.lo <= TypedVal(t, i)) /\ TypedVal(t, i) <= c.hi

\* The body of a taken case.
caseBody(t, tb, c, i) ==
    IF c.single THEN tb.name[c.suffix]
    ELSE Indexed(t, tb, c.suffix, IF c.sub THEN Pat(t, i - c.lo) ELSE i)

RECURSIVE execCases(_, _, _, _)
\* The switch of buildMultipleRuns: the first case taken, or the default.
execCases(t, tb, cases, i) ==
    IF cases = <<>> THEN Fallback(t, i)
    ELSE IF caseTaken(t, cases[1], i) THEN caseBody(t, tb, cases[1], i)
    ELSE execCases(t, tb, Tail(cases), i)

\* Whether the switch refers to declared tables only.
casesDeclared(tb, cases) ==
    \A k \in 1..Len(cases) :
        RefDeclared(tb, [suffix |-> cases[k].suffix, sliced |-> ~cases[k].single])

RECURSIVE lookup(_, _, _)
\* _T_map[i]: the entry with key i, if any
lookup(t, entries, i) ==
    IF entries = <<>> THEN <<>>
    ELSE IF Pat(t, entries[1].key) = i THEN <<entries[1]>>
    ELSE lookup(t, Tail(entries), i)

\* stringMap
execMap(t, tb, i) ==
    LET e == lookup(t, tb.map, i) IN
    IF e # <<>> THEN Slice(tb.name[<<>>], e[1].lo, e[1].hi) ELSE Fallback(t, i)

\* String() of an enum type: the method the strategy printed.
execString(t, tb, m, i) ==
    IF m.tmpl = "stringOneRun" THEN execOneRun(t, tb, m, i)
    ELSE IF m.tmpl = "stringOneRunWithOffset" THEN execOneRunWithOffset(t, tb, m, i)
    ELSE IF m.tmpl = "switch"
         THEN IF casesDeclared(tb, m.cases) THEN execCases(t, tb, m.cases, i) ELSE Undeclared
    ELSE execMap(t, tb, i)

RECURSIVE execTests(_, _, _, _, _)
\* The "if i&v != 0 { i, s = i&^v, append(s, name) }" statements, in order.
execTests(t, tb, tests, i, s) ==
    IF tests = <<>> THEN [i |-> i, s |-> s]
    ELSE IF BitAnd(i, Pat(t, tests[1].v)) # 0
         THEN execTests(t, tb, Tail(tests), AndNot(i, Pat(t, tests[1].v)),
                        Append(s, RefName(tb, tests[1].ref)))
         ELSE execTests(t, tb, Tail(tests), i, s)

RECURSIVE execRange(_, _, _, _, _)
\* stringFlagMap: "for k, v := range _T_map", the entries visited in the
\* order ord.
execRange(t, tb, ord, i, s) ==
    IF ord = <<>> THEN [i |-> i, s |-> s]
    ELSE IF BitAnd(Pat(t, ord[1].key), i) # 0
         THEN execRange(t, tb, Tail(ord), AndNot(i, Pat(t, ord[1].key)),
                        Append(s, Slice(tb.name[<<>>], ord[1].lo, ord[1].hi)))
         ELSE execRange(t, tb, Tail(ord), i, s)

\* stringActiveFlagsEnd
execEnd(t, r) == IF r.i # 0 THEN Append(r.s, Fallback(t, r.i)) ELSE r.s

\* Whether the ActiveFlags body refers to declared tables only.
flagsDeclared(tb, m) ==
    /\ \A k \in 1..Len(m.zero) : RefDeclared(tb, m.zero[k])
    /\ m.tmpl = "flags" => \A k \in 1..Len(m.tests) : RefDeclared(tb, m.tests[k].ref)

\* ActiveFlags() of a flag type; ord is the order in which a range over
\* the map visits its entries.
execActiveFlags(t, tb, m, i, ord) ==
    IF ~flagsDeclared(tb, m) THEN <<Undeclared>>
    ELSE IF m.zero # <<>> /\ i = 0 THEN <<RefName(tb, m.zero[1])>>
    ELSE IF m.tmpl = "flags" THEN execEnd(t, execTests(t, tb, m.tests, i, <<>>))
    ELSE execEnd(t, execRange(t, tb, ord, i, <<>>))

RECURSIVE Join(_, _)
\* strings.Join
Join(ss, sep) ==
    IF ss = <<>> THEN <<>>
    ELSE IF Len(ss) = 1 THEN ss[1]
    ELSE ss[1] \o sep \o Join(Tail(ss), sep)

\* The sequences that hold every member of the set S once.
RECURSIVE Perms(_)
Perms(S) ==
    IF S = {} THEN {<<>>}
    ELSE UNION {{<<x>> \o p : p \in Perms(S \ {x})} : x \in S}

\* The entries of the map whose key shares a bit with i: the only ones the
\* range loop acts on, since the working value only loses bits.
Acting(t, entries, i) ==
    {entries[k] : k \in {n \in 1..Len(entries) : BitAnd(Pat(t, entries[n].key), i) # 0}}

\* The values String is called with: the freely declared values, some of
\* the sparse ones, and neighbours of both.
EnumInputs(t) ==
    FreeVals(t) \cup {3, 4, 5, 16, 17, Sparse(t.bits \div 2)}
    \cup {(Card(t) \div 2) - 1, (Card(t) \div 2) + 1, Card(t) - 2}

\* Bits 0, 1, 2 and the top bit may be declared flags; bit 3 never is.
ProbeBits(t) == {1, 2, 4, 8, Card(t) \div 2}

\* The values ActiveFlags is called with: up to two probe bits, and some
\* sets of three.
FlagInputs(t) ==
    {0, 7, 11, (Card(t) \div 2) + 9} \cup ProbeBits(t)
    \cup {pr[1] + pr[2] : pr \in {q \in ProbeBits(t) \X ProbeBits(t) : q[1] < q[2]}}

\* ------------------------------------------------------------------ actions

NoTables == [name |-> <<>>, index |-> <<>>, map |-> <<>>]

\* The process is running.
NoExit == [code |-> -1, msg |-> <<>>]

Init ==
    /\ tdef \in TypeDefs
    /\ decls = <<>>
    /\ file = [kind |-> Flag, typeName |-> <<>>, values |-> <<>>,
               trimPrefix |-> <<>>, lineComment |-> FALSE]
    /\ runs = <<>>
    /\ tables = NoTables
    /\ methods = <<>>
    /\ arg = 0
    /\ terms = <<>>
    /\ str = <<>>
    /\ pc = "source"
    /\ flagTypesStrFlag = <<>>
    /\ enumTypesStrFlag = <<>>
    /\ types = <<>>
    /\ pkgs = <<>>
    /\ buf = <<>>
    /\ outputFile = <<>>
    /\ exit = NoExit

\* The values the k-th declaration of the source may have.
DeclVals(t, k) ==
    IF k <= MaxFree THEN FreeVals(t)
    ELSE {p \in {Sparse(k - MaxFree)} : p < Card(t)}

\* One more const declaration of the type in the source.
Declare(p) ==
    /\ pc = "source"
    /\ LET k == Len(decls) + 1 IN
       decls' = Append(decls, [originalName |-> OrigName(k), typ |-> TypeName,
                               val |-> p, hasComment |-> HasComment(k),
                               comment |-> CommentText(k)])
    /\ UNCHANGED <<tdef, file, runs, tables, methods, arg, terms, str, pc, runVars>>

\* generate(typeName, kind, trimPrefix, lineComment)
generate(kind, opt) ==
    /\ pc = "source"
    /\ LET f == resetFile(file, TypeName, kind, opt.trimPrefix, opt.lineComment)
           values == genDecl(f, tdef, decls)
           rs == splitIntoRuns(values, kind)
       IN /\ file' = [f EXCEPT !.values = values]
          /\ IF Len(values) = 0
             THEN /\ pc' = "fatal"
                  /\ UNCHANGED <<runs, tables, methods>>
             ELSE /\ pc' = "generated"
                  /\ runs' = rs
                  /\ tables' = Layout(rs, kind)
                  /\ methods' = Methods(rs, kind)
    /\ UNCHANGED <<tdef, decls, arg, terms, str, runVars>>

\* x.String() for a value x of an enum type.
CallString(x) ==
    /\ pc = "generated"
    /\ file.kind = Enum
    /\ arg' = x
    /\ str' = execString(tdef, tables, methods[1], x)
    /\ pc' = "decoded"
    /\ UNCHANGED <<tdef, decls, file, runs, tables, methods, terms, runVars>>

\* x.ActiveFlags() and x.String() for a value x of a flag type.
CallActiveFlags(x, ord) ==
    /\ pc = "generated"
    /\ file.kind = Flag
    /\ arg' = x
    /\ terms' = execActiveFlags(tdef, tables, methods[1], x, ord)
    /\ str' = Join(terms', methods[2].sep)
    /\ pc' = "decoded"
    /\ UNCHANGED <<tdef, decls, file, runs, tables, methods, runVars>>

Next ==
    \/ pc = "source" /\ \E p \in DeclVals(tdef, Len(decls) + 1) : Declare(p)
    \/ \E kind \in {Flag, Enum}, opt \in TypeOptions : generate(kind, opt)
    \/ pc = "generated" /\ file.kind = Enum /\ \E x \in EnumInputs(tdef) : CallString(x)
    \/ pc = "generated" /\ file.kind = Flag /\
          \E x \in FlagInputs(tdef) :
             \E ord \in Perms(Acting(tdef, tables.map, x)) : CallActiveFlags(x, ord)

Spec == Init /\ [][Next]_vars

\* ------------------------------------------------------- the command line

KeyLineComment == <<108, 105, 110, 101, 67, 111, 109, 109, 101, 110, 116>>
KeyTrimPrefix == <<116, 114, 105, 109, 80, 114, 101, 102, 105, 120>>
KeyTrimType == <<116, 114, 105, 109, 84, 121, 112, 101>>
KeyGetterSetter == <<103, 101, 116, 116, 101, 114, 83, 101, 116, 116, 101, 114>>

RECURSIVE Index(_, _)
\* The position of the first c in s, 0 if there is none.
Index(s, c) ==
    IF s = <<>> THEN 0
    ELSE IF Head(s) = c THEN 1
    ELSE LET i == Index(Tail(s), c) IN IF i = 0 THEN 0 ELSE i + 1

\* strings.Cut for a separator of one character
Cut(s, c) ==
    LET i == Index(s, c) IN
    IF i = 0 THEN [before |-> s, after |-> <<>>]
    ELSE [before |-> SubSeq(s, 1, i - 1), after |-> SubSeq(s, i + 1, Len(s))]

RECURSIVE Split(_, _)
\* strings.Split for a separator of one character
Split(s, c) ==
    LET i == Index(s, c) IN
    IF i = 0 THEN <<s>>
    ELSE <<SubSeq(s, 1, i - 1)>> \o Split(SubSeq(s, i + 1, Len(s)), c)

\* applyOption as it would be with unknown keys ignored
applyOptionLenient(out, opt) ==
    LET k == Cut(opt, 58).before
        v == Cut(opt, 58).after
    IN IF k = KeyLineComment THEN [out |-> [out EXCEPT !.lineComment = TRUE], err |-> <<>>]
       ELSE IF k = KeyTrimPrefix THEN [out |-> [out EXCEPT !.trimPrefix = v], err |-> <<>>]
       ELSE IF k = KeyTrimType THEN [out |-> [out EXCEPT !.trimPrefix = out.name], err |-> <<>>]
       ELSE IF k = KeyGetterSetter THEN [out |-> [out EXCEPT !.getterSetter = TRUE], err |-> <<>>]
       ELSE [out |-> out, err |-> <<>>]

\* The switch of parseOption for one option "k:v".
applyOption(out, opt) ==
    LET k == Cut(opt, 58).before
        v == Cut(opt, 58).after
    IN IF k = KeyLineComment THEN [out |-> [out EXCEPT !.lineComment = TRUE], err |-> <<>>]
       ELSE IF k = KeyTrimPrefix THEN [out |-> [out EXCEPT !.trimPrefix = v], err |-> <<>>]
       ELSE IF k = KeyTrimType THEN [out |-> [out EXCEPT !.trimPrefix = out.name], err |-> <<>>]
       ELSE IF k = KeyGetterSetter THEN [out |-> [out EXCEPT !.getterSetter = TRUE], err |-> <<>>]
       ELSE [out |-> <<>>, err |-> <<"unknown option", k>>]

RECURSIVE applyOptions(_, _)
\* The loop of parseOption over the options of an entry.
applyOptions(out, opts) ==
    IF opts = <<>> THEN [out |-> out, err |-> <<>>]
    ELSE LET r == applyOption(out, opts[1]) IN
         IF r.err # <<>> THEN r ELSE applyOptions(r.out, Tail(opts))

\* parseOption
parseOption(kind, inp) ==
    LET name == Cut(inp, 61).before
        options == Cut(inp, 61).after
        out == [kind |-> kind, name |-> name, trimPrefix |-> <<>>,
                lineComment |-> FALSE, getterSetter |-> FALSE]
    IN IF options # <<>> THEN applyOptions(out, Split(options, 59))
       ELSE [out |-> out, err |-> <<>>]

RECURSIVE processEntries(_, _, _)
\* The loop of processTypeOptions over the entries of a list.
processEntries(opts, kind, ss) ==
    IF ss = <<>> THEN [opts |-> opts, err |-> <<>>]
    ELSE LET e == TrimSpace(ss[1]) IN
         IF e = <<>> THEN processEntries(opts, kind, Tail(ss))
         ELSE LET r == parseOption(kind, e) IN
              IF r.err # <<>> THEN [opts |-> <<>>, err |-> r.err]
              ELSE processEntries(Append(opts, r.out), kind, Tail(ss))

\* processTypeOptions
processTypeOptions(opts, kind, inp) == processEntries(opts, kind, Split(inp, 44))

\* The entries a list of the command line is made of: "T",
\* " U=trimType;lineComment;getterSetter" and "V=trimPrefix:V;bogus:1".
Entries ==
    { <<84>>,
      <<32, 85, 61, 116, 114, 105, 109, 84, 121, 112, 101, 59, 108, 105,
        110, 101, 67, 111, 109, 109, 101, 110, 116, 59, 103, 101, 116, 116,
        101, 114, 83, 101, 116, 116, 101, 114>>,
      <<86, 61, 116, 114, 105, 109, 80, 114, 101, 102, 105, 120, 58, 86,
        59, 98, 111, 103, 117, 115, 58, 49>> }

\* The values a -flags or -enums argument may have: entries joined by ",".
CommandLines ==
    {Join(l, <<44>>) : l \in UNION {[1..n -> Entries] : n \in 0..MaxEntries}}

\* The constants of the packages run is started on, with the type of each:
\* types T, U and V, of the same underlying type.
SourceConsts(t, n) ==
    IF n = 1
    THEN << [typ |-> <<84>>, val |-> 1], [typ |-> <<84>>, val |-> 2],
            [typ |-> <<84>>, val |-> 1], [typ |-> <<84>>, val |-> 4],
            [typ |-> <<85>>, val |-> 3], [typ |-> <<85>>, val |-> 5],
            [typ |-> <<85>>, val |-> 6] >>
    ELSE << [typ |-> <<84>>, val |-> 0], [typ |-> <<84>>, val |-> Card(t) - 1],
            [typ |-> <<85>>, val |-> 2], [typ |-> <<85>>, val |-> 3],
            [typ |-> <<86>>, val |-> Card(t) \div 2], [typ |-> <<86>>, val |-> 1],
            [typ |-> <<86>>, val |-> 7] >>

\* The const declarations of package n.
Source(t, n) ==
    [k \in 1..Len(SourceConsts(t, n)) |->
        [originalName |-> SourceConsts(t, n)[k].typ \o <<96 + k>>,
         typ |-> SourceConsts(t, n)[k].typ,
         val |-> SourceConsts(t, n)[k].val,
         hasComment |-> HasComment(k),
         comment |-> CommentText(k)]]

PackageIds == {1, 2}

\* ---------------------------------------------------------------------- run

\* A File as parsePackage makes it.
NewFile ==
    [kind |-> Flag, typeName |-> <<>>, values |-> <<>>,
     trimPrefix |-> <<>>, lineComment |-> FALSE]

\* The process is started with an output name, a -flags and an -enums
\* argument, in the directory of a package.
InitRun ==
    /\ tdef \in TypeDefs
    /\ \E n \in PackageIds : decls = Source(tdef, n)
    /\ file = NewFile
    /\ runs = <<>>
    /\ tables = NoTables
    /\ methods = <<>>
    /\ arg = 0
    /\ terms = <<>>
    /\ str = <<>>
    /\ pc = "run"
    /\ flagTypesStrFlag \in CommandLines
    /\ enumTypesStrFlag \in CommandLines
    /\ types = <<>>
    /\ pkgs = <<>>
    /\ buf = <<>>
    /\ outputFile = <<>>
    /\ exit = NoExit

\* run, up to the package being parsed: both lists are turned into types;
\* an error is returned to main, which prints it and exits with 2, and so
\* does the usage message when no type is named.
runProcessTypeOptions ==
    /\ pc = "run"
    /\ LET fl == processTypeOptions(<<>>, Flag, flagTypesStrFlag)
           en == processTypeOptions(fl.opts, Enum, enumTypesStrFlag)
       IN IF fl.err # <<>>
          THEN types' = fl.opts /\ exit' = [code |-> 2, msg |-> fl.err] /\ pc' = "exited"
          ELSE IF en.err # <<>>
          THEN types' = en.opts /\ exit' = [code |-> 2, msg |-> en.err] /\ pc' = "exited"
          ELSE IF Len(en.opts) = 0
          THEN types' = en.opts /\ exit' = [code |-> 2, msg |-> <<"usage">>] /\ pc' = "exited"
          ELSE types' = en.opts /\ exit' = exit /\ pc' = "parsePackage"
    /\ UNCHANGED <<tdef, decls, file, runs, tables, methods, arg, terms, str,
                   flagTypesStrFlag, enumTypesStrFlag, pkgs, buf, outputFile>>

\* g.parsePackage and g.generateStart(hasFlags): the flag types are first
\* in types.
runParsePackage ==
    /\ pc = "parsePackage"
    /\ pkgs' = <<decls>>
    /\ buf' = <<[item |-> "header", usesFlags |-> types[1].kind = Flag]>>
    /\ pc' = "generate"
    /\ UNCHANGED <<tdef, decls, file, runs, tables, methods, arg, terms, str,
                   flagTypesStrFlag, enumTypesStrFlag, types, outputFile, exit>>

\* One turn of run's loop: g.generate for the next type.  log.Fatalf ends
\* the process with exit code 1.
runGenerate ==
    /\ pc = "generate"
    /\ Len(buf) <= Len(types)
    /\ LET typeOpt == types[Len(buf)]
           f == resetFile(file, typeOpt.name, typeOpt.kind, typeOpt.trimPrefix,
                          typeOpt.lineComment)
           values == genDecl(f, tdef, pkgs[1])
           rs == splitIntoRuns(values, typeOpt.kind)
       IN /\ file' = [f EXCEPT !.values = values]
          /\ IF Len(values) = 0
             THEN /\ pc' = "exited"
                  /\ exit' = [code |-> 1,
                              msg |-> <<"no values defined for type", typeOpt.name>>]
                  /\ UNCHANGED buf
             ELSE /\ buf' = Append(buf, [item |-> "type", typeName |-> typeOpt.name,
                                         kind |-> typeOpt.kind, values |-> values,
                                         runs |-> rs,
                                         tables |-> Layout(rs, typeOpt.kind),
                                         methods |-> Methods(rs, typeOpt.kind)])
                  /\ UNCHANGED <<pc, exit>>
    /\ UNCHANGED <<tdef, decls, runs, tables, methods, arg, terms, str,
                   flagTypesStrFlag, enumTypesStrFlag, types, pkgs, outputFile>>

\* The end of run: the buffer is formatted and written to the output file.
runWriteFile ==
    /\ pc = "generate"
    /\ Len(buf) = Len(types) + 1
    /\ outputFile' = <<buf>>
    /\ exit' = [code |-> 0, msg |-> <<"wrote output to">>]
    /\ pc' = "exited"
    /\ UNCHANGED <<tdef, decls, file, runs, tables, methods, arg, terms, str,
                   flagTypesStrFlag, enumTypesStrFlag, types, pkgs, buf>>

NextRun ==
    \/ runProcessTypeOptions
    \/ runParsePackage
    \/ runGenerate
    \/ runWriteFile

SpecRun == InitRun /\ [][NextRun]_vars

\* ------------------------------------------------------------------- claims

\* generate has returned and no method was called yet.  The calls leave
\* file, runs, tables and methods as they are.
Generated == pc = "generated"

\* The constants of all runs, in order.
Kept == Flatten(runs)

\* The retained constants whose value is the pattern x of the declared type.
KeptAt(x) == {k \in 1..Len(Kept) : Pat(tdef, Kept[k].str) = x}

\* The first position of file.values that holds the value of position k.
FirstWith(k) ==
    CHOOSE n \in 1..k :
        /\ file.values[n].value = file.values[k].value
        /\ \A m \in 1..(n - 1) : file.values[m].value # file.values[k].value

\* C7 (duplicate resolution): after splitIntoRuns, for every value of the
\* input exactly one constant with that value remains in the runs, it is the
\* one declared first among those sharing the value, and every later
\* constant with that value is in no run.
C7_DuplicateResolution ==
    Generated =>
        \A k \in 1..Len(file.values) :
            LET hits == {n \in 1..Len(Kept) : Kept[n].value = file.values[k].value} IN
            /\ Cardinality(hits) = 1
            /\ \A n \in hits : Kept[n] = file.values[FirstWith(k)]
            /\ FirstWith(k) # k =>
                   \A n \in 1..Len(Kept) : Kept[n].originalName # file.values[k].originalName

\* A type was generated whose input held three constants, two of one value,
\* the second of them declared last.
C7_Witness ==
    /\ Generated
    /\ Len(file.values) >= 3
    /\ \E a, b \in 1..Len(file.values) :
          /\ a < b
          /\ file.values[a].value = file.values[b].value
          /\ \E c \in (a + 1)..(b - 1) : file.values[c].value # file.values[a].value

\* The number a value is ordered by: its pattern read as signed 64-bit when
\* the type is signed, as unsigned 64-bit otherwise.
OrderKey(v) == IF tdef.signed /\ v.value >= 2 ^ (Width - 1) THEN v.value - 2 ^ Width ELSE v.value

\* C8 (run coverage): splitIntoRuns returns one or more runs, none empty,
\* whose concatenation holds every value of the input exactly once, in
\* strictly ascending order (signed order for a signed type, unsigned
\* otherwise).
C8_RunCoverage ==
    Generated =>
        /\ Len(runs) >= 1
        /\ \A i \in 1..Len(runs) : Len(runs[i]) >= 1
        /\ \A n \in 1..(Len(Kept) - 1) : OrderKey(Kept[n]) < OrderKey(Kept[n + 1])
        /\ {Kept[n].value : n \in 1..Len(Kept)}
               = {file.values[k].value : k \in 1..Len(file.values)}
        /\ \A n \in 1..Len(Kept) : \E k \in 1..Len(file.values) : Kept[n] = file.values[k]

\* A signed type was split into several runs, with a negative value, a
\* positive value and a duplicate in its input.
C8_Witness ==
    /\ Generated
    /\ tdef.signed
    /\ Len(runs) >= 3
    /\ Len(Kept) < Len(file.values)
    /\ \E n, m \in 1..Len(Kept) : OrderKey(Kept[n]) < 0 /\ OrderKey(Kept[m]) > 0

\* The strategy the emitted decode routine and layout belong to.
Strategy ==
    IF methods[1].tmpl \in {"stringOneRun", "stringOneRunWithOffset"}
       /\ DOMAIN tables.name = {<<>>} /\ DOMAIN tables.index = {<<>>} /\ tables.map = <<>>
    THEN "SingleRun"
    ELSE IF methods[1].tmpl = "switch" /\ tables.map = <<>> /\ <<>> \notin DOMAIN tables.name
    THEN "MultiRunSwitch"
    ELSE IF methods[1].tmpl = "flags" /\ tables.map = <<>> /\ <<>> \notin DOMAIN tables.name
    THEN "MultiRunFlagDecompose"
    ELSE IF methods[1].tmpl \in {"stringMap", "stringFlagMap"}
            /\ DOMAIN tables.name = {<<>>} /\ DOMAIN tables.index = {}
            /\ Len(tables.map) = Len(Kept)
    THEN "SparseMap"
    ELSE "none"

\* C9 (strategy selection): the strategy follows from the number of runs and
\* the kind alone: one run gives SingleRun for Enum and MultiRunFlagDecompose
\* for Flag, 2 to 8 runs give MultiRunSwitch for Enum and
\* MultiRunFlagDecompose for Flag, 9 or more runs give SparseMap; an Enum
\* single run that starts at 0 is decoded without subtracting a base.
C9_StrategySelection ==
    Generated =>
        /\ (Len(runs) = 1 /\ file.kind = Enum) => Strategy = "SingleRun"
        /\ (Len(runs) = 1 /\ file.kind = Flag) => Strategy = "MultiRunFlagDecompose"
        /\ (Len(runs) \in 2..8 /\ file.kind = Enum) => Strategy = "MultiRunSwitch"
        /\ (Len(runs) \in 2..8 /\ file.kind = Flag) => Strategy = "MultiRunFlagDecompose"
        /\ Len(runs) >= 9 => Strategy = "SparseMap"
        /\ (Len(runs) = 1 /\ file.kind = Enum /\ runs[1][1].value = 0)
               => methods[1].tmpl = "stringOneRun"
        /\ (Len(runs) = 1 /\ file.kind = Enum /\ runs[1][1].value # 0)
               => methods[1].tmpl = "stringOneRunWithOffset"

\* An enum type of exactly 8 runs was generated.
C9_Witness == Generated /\ file.kind = Enum /\ Len(runs) = 8

\* The 64-bit value of a declaration.
Value64(d) == TypedVal(tdef, d.val) % 2 ^ Width

\* Whether genDecl kept the declaration.
Retained(d) == \E k \in 1..Len(file.values) : file.values[k].originalName = d.originalName

\* C10 (flag filtering): for Flag kind a constant is retained if and only if
\* its 64-bit value is zero or has exactly one bit set, and a dropped constant
\* is in no run, map entry or bit test; for Enum kind no constant is dropped.
C10_FlagFiltering ==
    pc \in {"generated", "fatal"} =>
        \A k \in 1..Len(decls) :
            LET d == decls[k] IN
            /\ file.kind = Flag => (Retained(d) <=> OnesCount(Value64(d)) <= 1)
            /\ file.kind = Enum => Retained(d)
            /\ ~Retained(d) =>
                  /\ \A n \in 1..Len(Kept) : Kept[n].originalName # d.originalName
                  /\ \A n \in 1..Len(tables.map) : tables.map[n].key # TypedVal(tdef, d.val)
                  /\ (Generated /\ methods[1].tmpl = "flags") =>
                         \A n \in 1..Len(methods[1].tests) :
                             methods[1].tests[n].v # TypedVal(tdef, d.val)

\* A flag type was generated from declarations that hold a zero, a single
\* bit and a value with several bits set.
C10_Witness ==
    /\ Generated
    /\ file.kind = Flag
    /\ \E a, b, c \in 1..Len(decls) :
          /\ Value64(decls[a]) = 0 /\ Retained(decls[a])
          /\ OnesCount(Value64(decls[b])) = 1 /\ Retained(decls[b])
          /\ OnesCount(Value64(decls[c])) > 1 /\ ~Retained(decls[c])

Rendered(x) == TypeName \o <<40>> \o FormatInt(TypedVal(tdef, x)) \o <<41>>

\* C5 (out-of-range enum decode): for Enum kind, decoding an input that is
\* not a retained value yields the fallback "T(n)" where n is the original
\* input.
C5_OutOfRangeFallback ==
    (pc = "decoded" /\ file.kind = Enum /\ KeptAt(arg) = {}) => str = Rendered(arg)

\* The retained nonzero flags.
KnownFlags == {k \in 1..Len(Kept) : Kept[k].value # 0}

\* The retained nonzero flags whose bit is set in x.
FlagsIn(x) == {k \in KnownFlags : BitAnd(Pat(tdef, Kept[k].str), x) # 0}

RECURSIVE SumPat(_)
\* The union of the bits of a set of retained flags.
SumPat(S) ==
    IF S = {} THEN 0
    ELSE LET k == CHOOSE k \in S : TRUE IN Pat(tdef, Kept[k].str) + SumPat(S \ {k})

\* The bits of x that belong to no retained flag.
Residual(x) == x - SumPat(FlagsIn(x))

\* The terms of a decode without the fallback term the residual asks for.
NameTerms == IF Residual(arg) # 0 /\ terms # <<>> THEN SubSeq(terms, 1, Len(terms) - 1) ELSE terms

\* C2 (flag round trip): for Flag kind, decoding a nonzero value yields
\* exactly one name for each retained flag whose bit is set, and, if and
\* only if the residual r is nonzero, one fallback term, placed last, whose
\* number is r.
C2_FlagRoundTrip ==
    (pc = "decoded" /\ file.kind = Flag /\ arg # 0) =>
        /\ Len(terms) = Cardinality(FlagsIn(arg)) + (IF Residual(arg) # 0 THEN 1 ELSE 0)
        /\ \E ord \in Perms(FlagsIn(arg)) :
               NameTerms = [n \in 1..Len(ord) |-> Kept[ord[n]].name]
        /\ Residual(arg) # 0 => terms[Len(terms)] = Rendered(Residual(arg))

\* C3 (flag decode order): for Flag kind, the names of a decode appear in
\* ascending bit-position order of the flags they name.
C3_FlagDecodeOrder ==
    (pc = "decoded" /\ file.kind = Flag /\ arg # 0) =>
        \A p, q \in 1..Len(NameTerms) :
            p < q =>
                \E a, b \in FlagsIn(arg) :
                    /\ Kept[a].name = NameTerms[p]
                    /\ Kept[b].name = NameTerms[q]
                    /\ Pat(tdef, Kept[a].str) < Pat(tdef, Kept[b].str)

\* The retained constants of value zero.
ZeroKept == {k \in 1..Len(Kept) : Kept[k].value = 0}

\* C4 (flag zero case): for Flag kind, decoding 0 yields the one-element
\* sequence of the zero constant's name when a zero constant was retained and
\* the empty sequence when none was, and the zero constant's name is in the
\* decode of no nonzero value.
C4_FlagZeroCase ==
    (pc = "decoded" /\ file.kind = Flag) =>
        /\ (arg = 0 /\ ZeroKept # {}) => \A k \in ZeroKept : terms = <<Kept[k].name>>
        /\ (arg = 0 /\ ZeroKept = {}) => terms = <<>>
        /\ arg # 0 => \A k \in ZeroKept : \A n \in 1..Len(terms) : terms[n] # Kept[k].name

\* C6 (fallback number rendering): in every fallback term, of an enum decode
\* and of a flag decode, the number is the signed decimal of the input when
\* the type is signed and its unsigned decimal when the type is unsigned.
C6_FallbackRendering ==
    pc = "decoded" =>
        /\ (file.kind = Enum /\ KeptAt(arg) = {}) =>
               SubSeq(str, 3, Len(str) - 1) = FormatInt(TypedVal(tdef, arg))
        /\ (file.kind = Flag /\ arg # 0 /\ Residual(arg) # 0) =>
               LET last == terms[Len(terms)] IN
               SubSeq(last, 3, Len(last) - 1) = FormatInt(TypedVal(tdef, Residual(arg)))

\* C13 (flag string separator): for a flag type, String() of a value that
\* decodes to several terms is those terms joined by ", " (comma, space).
C13_FlagSeparator ==
    (pc = "decoded" /\ file.kind = Flag /\ Len(terms) >= 2) =>
        str = Join(terms, <<44, 32>>)

\* The contiguity rule of the kind on the 64-bit patterns a, b.
Rule(kind, a, b) ==
    IF kind = Enum THEN b = (a + 1) % 2 ^ Width
    ELSE a = 0 \/ b = (2 * a) % 2 ^ Width

\* C14 (maximal runs): inside every run each adjacent pair satisfies the
\* contiguity rule of the kind (Enum: b = a + 1 with wraparound; Flag: a = 0
\* or b = a << 1), and the last value of a run with the first value of the
\* next run does not.
C14_RunsMaximal ==
    Generated =>
        /\ \A i \in 1..Len(runs) : \A j \in 1..(Len(runs[i]) - 1) :
               Rule(file.kind, runs[i][j].value, runs[i][j + 1].value)
        /\ \A i \in 1..(Len(runs) - 1) :
               ~Rule(file.kind, runs[i][Len(runs[i])].value, runs[i + 1][1].value)

\* A signed enum type was split into several runs, one of them passing from
\* -1 to 0.
C14_Witness ==
    /\ Generated /\ file.kind = Enum /\ tdef.signed /\ Len(runs) >= 2
    /\ \E i \in 1..Len(runs) : \E j \in 1..(Len(runs[i]) - 1) :
          runs[i][j].str = -1 /\ runs[i][j + 1].str = 0

\* C15 (run offset table): for every run, createIndexAndNameDecl gives an
\* offset list of len(run)+1 entries that starts at 0, is non-decreasing and
\* ends at the blob length, the slice between offsets k and k+1 is the display
\* name of the k-th member (so the blob is the names in run order with no
\* separator), and the tables declared for the run are those of the run on
\* its own.
C15_RunOffsetTable ==
    Generated =>
        \A i \in 1..Len(runs) :
            LET d == createIndexAndNameDecl(runs[i])
                n == Len(runs[i])
            IN /\ Len(d.index) = n + 1
               /\ d.index[1] = 0
               /\ d.index[n + 1] = Len(d.name)
               /\ \A k \in 1..n :
                     /\ d.index[k] <= d.index[k + 1]
                     /\ SubSeq(d.name, d.index[k] + 1, d.index[k + 1]) = runs[i][k].name
               /\ Suffix(i - 1) \in DOMAIN tables.name =>
                      tables.name[Suffix(i - 1)] = d.name
               /\ Suffix(i - 1) \in DOMAIN tables.index =>
                      tables.index[Suffix(i - 1)] = d.index

\* A type was generated with per-run tables, a run of three members among
\* them that is not the first run, the names of different lengths.
C15_Witness ==
    /\ Generated /\ Len(runs) >= 3
    /\ \E i \in 2..Len(runs) :
          /\ Len(runs[i]) >= 3
          /\ Suffix(i - 1) \in DOMAIN tables.index
          /\ Len(runs[i][1].name) # Len(runs[i][2].name)

\* The String methods among the emitted methods.
StringMethods == {k \in 1..Len(methods) : methods[k].method = "String"}

\* C17 (one String routine per type): for either kind and any number of
\* runs, exactly one String routine is emitted for the type, and the
\* ActiveFlags-based String routine only for Flag kind.
C17_OneStringRoutine ==
    Generated =>
        /\ Cardinality(StringMethods) = 1
        /\ (\E k \in 1..Len(methods) : methods[k].tmpl = "join") => file.kind = Flag

\* The table references of the emitted decode routine.
Refs(m) ==
    IF m.tmpl \in {"stringOneRun", "stringOneRunWithOffset"}
    THEN {[suffix |-> <<>>, sliced |-> TRUE]}
    ELSE IF m.tmpl = "switch"
    THEN {[suffix |-> m.cases[k].suffix, sliced |-> ~m.cases[k].single] : k \in 1..Len(m.cases)}
    ELSE IF m.tmpl = "flags"
    THEN {[suffix |-> m.tests[k].ref.suffix, sliced |-> m.tests[k].ref.sliced] : k \in 1..Len(m.tests)}
         \cup {[suffix |-> m.zero[k].suffix, sliced |-> m.zero[k].sliced] : k \in 1..Len(m.zero)}
    ELSE IF m.tmpl = "stringFlagMap"
    THEN {[suffix |-> <<>>, sliced |-> FALSE]}
         \cup {[suffix |-> m.zero[k].suffix, sliced |-> m.zero[k].sliced] : k \in 1..Len(m.zero)}
    ELSE {[suffix |-> <<>>, sliced |-> FALSE]}

\* C18 (tables declared): every name blob and offset table the emitted
\* decode routine refers to is declared by the layout of the same type, and
\* a per-run offset table is referred to only for runs of two or more
\* members.
C18_TablesDeclared ==
    Generated =>
        \A r \in Refs(methods[1]) :
            /\ r.suffix \in DOMAIN tables.name
            /\ r.sliced => r.suffix \in DOMAIN tables.index
            /\ (r.sliced /\ r.suffix # <<>>) =>
                   \E i \in 1..Len(runs) : Suffix(i - 1) = r.suffix /\ Len(runs[i]) >= 2

\* What generate produces for the type entry o when that type is the only
\* one processed: the walk starts from a File as parsePackage makes it.
Alone(o) ==
    LET f == [NewFile EXCEPT !.kind = o.kind, !.typeName = o.name,
                             !.trimPrefix = o.trimPrefix, !.lineComment = o.lineComment]
        values == genDecl(f, tdef, decls)
        rs == splitIntoRuns(values, o.kind)
    IN [values |-> values,
        runs |-> IF values = <<>> THEN <<>> ELSE rs,
        tables |-> IF values = <<>> THEN NoTables ELSE Layout(rs, o.kind),
        methods |-> IF values = <<>> THEN <<>> ELSE Methods(rs, o.kind)]

\* C16 (no state carries over between types): in one invocation that
\* generates several types one after another, the values collected, the
\* runs, the strategy and the tables of every type are those produced when
\* the type is the only one processed.
C16_NoCarryOver ==
    \A k \in 2..Len(buf) :
        /\ buf[k].typeName = types[k - 1].name
        /\ buf[k].values = Alone(types[k - 1]).values
        /\ buf[k].runs = Alone(types[k - 1]).runs
        /\ buf[k].tables = Alone(types[k - 1]).tables
        /\ buf[k].methods = Alone(types[k - 1]).methods

\* A type was generated as a flag type and then, with other constants
\* kept, as an enum type, after a type with other option settings.
C16_Witness ==
    /\ pc = "exited" /\ exit.code = 0
    /\ \E k \in 2..(Len(types) - 1) :
          /\ types[k].name = types[k + 1].name
          /\ types[k].kind = Flag /\ types[k + 1].kind = Enum
          /\ buf[k + 1].values # buf[k + 2].values
          /\ types[k - 1].lineComment # types[k].lineComment

\* Whether the type entry has a usable constant after filtering.
Usable(o) == Alone(o).values # <<>>

\* C11 (empty input does not abort other types): when one invocation
\* processes several types and one of them has no usable constants, the
\* error is reported for that type and the output of the remaining types is
\* still produced.
C11_EmptyInputIsolated ==
    (pc = "exited" /\ Len(types) >= 2 /\ \E k \in 1..Len(types) : ~Usable(types[k])) =>
        /\ outputFile # <<>>
        /\ \A k \in 1..Len(types) :
               Usable(types[k]) =>
                   \E n \in 2..Len(outputFile[1]) :
                       /\ outputFile[1][n].typeName = types[k].name
                       /\ outputFile[1][n].kind = types[k].kind
                       /\ outputFile[1][n].methods = Alone(types[k]).methods

ValidKeys == {KeyLineComment, KeyTrimPrefix, KeyTrimType, KeyGetterSetter}

\* The type entries of a list of the command line.
EntriesOf(list) ==
    {TrimSpace(Split(list, 44)[i]) : i \in 1..Len(Split(list, 44))} \ {<<>>}

\* The option keys an entry carries.
KeysOf(e) ==
    LET options == Cut(e, 61).after IN
    IF options = <<>> THEN {}
    ELSE {Cut(Split(options, 59)[i], 58).before : i \in 1..Len(Split(options, 59))}

\* Whether an entry of the list carries an option key that is not known.
HasBadKey(list) == \E e \in EntriesOf(list) : ~(KeysOf(e) \subseteq ValidKeys)

\* C12 (invalid configuration is reported first): when an entry of the
\* -flags or -enums list carries an unknown option key, run returns the
\* error, and the package is never parsed, no type is generated and the
\* output file is not written, wherever the bad entry is.
C12_InvalidConfigFirst ==
    (HasBadKey(flagTypesStrFlag) \/ HasBadKey(enumTypesStrFlag)) =>
        /\ pc \in {"run", "exited"}
        /\ pkgs = <<>> /\ buf = <<>> /\ outputFile = <<>>
        /\ pc = "exited" => exit.code = 2 /\ exit.msg[1] = "unknown option"

\* run has returned for a command line whose only bad entry is the last of
\* the -enums list, behind good entries in both lists.
C12_Witness ==
    /\ pc = "exited"
    /\ flagTypesStrFlag # <<>> /\ ~HasBadKey(flagTypesStrFlag)
    /\ HasBadKey(enumTypesStrFlag)
    /\ LET ss == Split(enumTypesStrFlag, 44) IN
          /\ Len(ss) >= 2
          /\ \A i \in 1..(Len(ss) - 1) : ~HasBadKey(ss[i])

====
